---- MODULE Spec2Model ----
(***************************************************************************)
(* Model of util.py: which_set, the hash-based assignment of a wav file to *)
(* the training, validation or testing partition.                          *)
(*                                                                         *)
(* File names are sequences of one-character strings.  SHA-1 is computed   *)
(* bit-exactly on the ASCII bytes of the hashed name; 32-bit words are     *)
(* kept as pairs <<high 16 bits, low 16 bits>>.  percentage_hash is kept   *)
(* as the exact rational 100 * r / MAX_NUM_WAVS_PER_CLASS (whole part and  *)
(* remainder): for every r in 0..MAX_NUM_WAVS_PER_CLASS the double product *)
(* r * (100.0 / MAX_NUM_WAVS_PER_CLASS) has the same integer part as that  *)
(* rational and is a whole number in the same two cases (r = 0 and         *)
(* r = MAX_NUM_WAVS_PER_CLASS, where the double is exactly 100.0), so both *)
(* compare alike with every whole-number threshold.                        *)
(***************************************************************************)
EXTENDS Integers, Sequences, FiniteSets, TLC

(***************************************************************************)
(* State: the arguments, locals and result of the latest call of which_set,*)
(* the files of the data set, and a record of the first call               *)
(***************************************************************************)
VARIABLES filename, validation_percentage, testing_percentage,
          base_name, hash_name, hash_name_hashed, percentage_hash, result,
          dataset, first

vars == <<filename, validation_percentage, testing_percentage,
          base_name, hash_name, hash_name_hashed, percentage_hash, result,
          dataset, first>>

(***************************************************************************)
(* Characters and their byte values (Python 2 str: one byte per character) *)
(***************************************************************************)
Digits == <<"0", "1", "2", "3", "4", "5", "6", "7", "8", "9">>

Lower == <<"a", "b", "c", "d", "e", "f", "g", "h", "i", "j", "k", "l", "m",
           "n", "o", "p", "q", "r", "s", "t", "u", "v", "w", "x", "y", "z">>

IndexIn(c, s) == CHOOSE i \in 1..Len(s) : s[i] = c

Ord(c) ==
    IF \E i \in 1..Len(Digits) : Digits[i] = c THEN 47 + IndexIn(c, Digits)
    ELSE IF \E i \in 1..Len(Lower) : Lower[i] = c THEN 96 + IndexIn(c, Lower)
    ELSE CASE c = "_"  -> 95
           [] c = "/"  -> 47
           [] c = "."  -> 46
           [] c = "\n" -> 10

(***************************************************************************)
(* 32-bit word arithmetic on pairs of 16-bit halves                        *)
(***************************************************************************)
Half == 65536

\* bitwise functions of SHA-1 on the low n bits of their arguments
RECURSIVE BitParity(_, _, _, _, _)
BitParity(a, b, c, d, n) ==
    IF n = 0 THEN 0
    ELSE ((a + b + c + d) % 2)
         + 2 * BitParity(a \div 2, b \div 2, c \div 2, d \div 2, n - 1)

RECURSIVE BitCh(_, _, _, _)
BitCh(a, b, c, n) ==
    IF n = 0 THEN 0
    ELSE (IF a % 2 = 1 THEN b % 2 ELSE c % 2)
         + 2 * BitCh(a \div 2, b \div 2, c \div 2, n - 1)

RECURSIVE BitMaj(_, _, _, _)
BitMaj(a, b, c, n) ==
    IF n = 0 THEN 0
    ELSE (IF (a % 2) + (b % 2) + (c % 2) >= 2 THEN 1 ELSE 0)
         + 2 * BitMaj(a \div 2, b \div 2, c \div 2, n - 1)

\* x ^ y ^ z ^ u
WXor(x, y, z, u) ==
    <<BitParity(x[1], y[1], z[1], u[1], 16),
      BitParity(x[2], y[2], z[2], u[2], 16)>>

\* x ^ y ^ z
WParity(x, y, z) == WXor(x, y, z, <<0, 0>>)

\* (x & y) | (~x & z)
WCh(x, y, z) == <<BitCh(x[1], y[1], z[1], 16), BitCh(x[2], y[2], z[2], 16)>>

\* (x & y) | (x & z) | (y & z)
WMaj(x, y, z) == <<BitMaj(x[1], y[1], z[1], 16), BitMaj(x[2], y[2], z[2], 16)>>

WAdd(x, y) ==
    LET lo == x[2] + y[2]
    IN  <<(x[1] + y[1] + (lo \div Half)) % Half, lo % Half>>

\* rotate left by n, 0 < n < 16
RotlSmall(x, n) ==
    <<((x[1] * (2 ^ n)) % Half) + (x[2] \div (2 ^ (16 - n))),
      ((x[2] * (2 ^ n)) % Half) + (x[1] \div (2 ^ (16 - n)))>>

Rotl(x, n) ==
    IF n < 16 THEN RotlSmall(x, n)
    ELSE IF n = 16 THEN <<x[2], x[1]>>
    ELSE RotlSmall(<<x[2], x[1]>>, n - 16)

(***************************************************************************)
(* SHA-1 of a message of at most 55 bytes (a single 512-bit block)         *)
(***************************************************************************)
\* the padded block as 64 bytes: message, 0x80, zeros, 64-bit bit length
PadByte(bytes, i) ==
    IF i <= Len(bytes) THEN bytes[i]
    ELSE IF i = Len(bytes) + 1 THEN 128
    ELSE IF i = 63 THEN (Len(bytes) * 8) \div 256
    ELSE IF i = 64 THEN (Len(bytes) * 8) % 256
    ELSE 0

BlockWord(bytes, j) ==
    <<PadByte(bytes, 4 * j - 3) * 256 + PadByte(bytes, 4 * j - 2),
      PadByte(bytes, 4 * j - 1) * 256 + PadByte(bytes, 4 * j)>>

RECURSIVE Schedule(_)
Schedule(w) ==
    IF Len(w) = 80 THEN w
    ELSE LET i == Len(w) + 1
         IN  Schedule(Append(w,
                 Rotl(WXor(w[i - 3], w[i - 8], w[i - 14], w[i - 16]), 1)))

H0 == <<26437, 8961>>      \* 0x67452301
H1 == <<61389, 43913>>     \* 0xEFCDAB89
H2 == <<39098, 56574>>     \* 0x98BADCFE
H3 == <<4146, 21622>>      \* 0x10325476
H4 == <<50130, 57840>>     \* 0xC3D2E1F0

RoundF(i, b, c, d) ==
    IF i < 20 THEN WCh(b, c, d)
    ELSE IF i < 40 THEN WParity(b, c, d)
    ELSE IF i < 60 THEN WMaj(b, c, d)
    ELSE WParity(b, c, d)

RoundK(i) ==
    IF i < 20 THEN <<23170, 31129>>        \* 0x5A827999
    ELSE IF i < 40 THEN <<28377, 60321>>   \* 0x6ED9EBA1
    ELSE IF i < 60 THEN <<36635, 48348>>   \* 0x8F1BBCDC
    ELSE <<51810, 49622>>                  \* 0xCA62C1D6

Round(i, s, wi) ==
    <<WAdd(WAdd(WAdd(WAdd(Rotl(s[1], 5), RoundF(i, s[2], s[3], s[4])),
                     s[5]), RoundK(i)), wi),
      s[1], Rotl(s[2], 30), s[3], s[4]>>

\* the working variables a, b, c, d, e after round 79, from their value s
\* before round i (s is evaluated here, round by round, by taking its length)
RECURSIVE Rounds(_, _, _)
Rounds(i, s, w) ==
    IF i = 80 \/ Len(s) # 5 THEN s
    ELSE Rounds(i + 1, Round(i, s, w[i + 1]), w)

AddInitial(s) ==
    <<WAdd(H0, s[1]), WAdd(H1, s[2]), WAdd(H2, s[3]),
      WAdd(H3, s[4]), WAdd(H4, s[5])>>

\* the five 32-bit words of the digest
Sha1(bytes) ==
    AddInitial(Rounds(0, <<H0, H1, H2, H3, H4>>,
                      Schedule([j \in 1..16 |-> BlockWord(bytes, j)])))


Bytes(name) == [i \in 1..Len(name) |-> Ord(name[i])]

(***************************************************************************)
(* which_set, line by line                                                 *)
(***************************************************************************)
MAX_NUM_WAVS_PER_CLASS == 2 ^ 27 - 1

Marker == <<"_", "n", "o", "h", "a", "s", "h", "_">>

\* os.path.basename (posixpath): what follows the last '/'
BaseName(path) ==
    LET slashes == {i \in 1..Len(path) : path[i] = "/"}
        last == IF slashes = {} THEN 0
                ELSE CHOOSE i \in slashes : \A j \in slashes : j <= i
    IN  SubSeq(path, last + 1, Len(path))

MarkerAt(s, i) ==
    /\ i + Len(Marker) - 1 <= Len(s)
    /\ SubSeq(s, i, i + Len(Marker) - 1) = Marker

\* where '.*' stops after a marker at i: '.' matches no line break
DotStarEnd(s, i) ==
    LET breaks == {j \in (i + Len(Marker))..Len(s) : s[j] = "\n"}
    IN  IF breaks = {} THEN Len(s)
        ELSE (CHOOSE j \in breaks : \A k \in breaks : j <= k) - 1

\* r'_nohash_.*$' matches at i: '$' (no MULTILINE) matches at the end of
\* the string or just before a line break that is its last character
MatchesAt(s, i) ==
    /\ MarkerAt(s, i)
    /\ DotStarEnd(s, i) >= Len(s) - 1

\* re.sub(r'_nohash_.*$', '', base_name): the leftmost match is removed
\* (what follows a match is empty or a final line break: no second match)
HashName(s) ==
    LET starts == {i \in 1..Len(s) : MatchesAt(s, i)}
    IN  IF starts = {} THEN s
        ELSE LET i == CHOOSE k \in starts : \A j \in starts : k <= j
             IN  SubSeq(s, 1, i - 1) \o SubSeq(s, DotStarEnd(s, i) + 1, Len(s))

\* a bucket that moves with the number of files in the data set
HashModCounted(digest) ==
    ((digest[5][1] % (2 ^ 11)) * Half + digest[5][2] + Cardinality(dataset))
        % (MAX_NUM_WAVS_PER_CLASS + 1)

\* int(hash_name_hashed, 16) % (MAX_NUM_WAVS_PER_CLASS + 1): the low 27 bits
\* of the 160-bit digest, all within its last word
HashMod(digest) == (digest[5][1] % (2 ^ 11)) * Half + digest[5][2]

\* r * (100.0 / MAX_NUM_WAVS_PER_CLASS) as whole + frac / MAX_NUM_WAVS_PER_CLASS
\* (100 * r is split at bit 27; 2^27 = MAX_NUM_WAVS_PER_CLASS + 1)
PercentageHash(r) ==
    LET rh == r \div (2 ^ 14)
        rl == r % (2 ^ 14)
        e == 100 * rh + ((100 * rl) \div (2 ^ 14))
        top == e \div (2 ^ 13)
        low == (e % (2 ^ 13)) * (2 ^ 14) + ((100 * rl) % (2 ^ 14))
    IN  IF top + low >= MAX_NUM_WAVS_PER_CLASS
        THEN [whole |-> top + 1, frac |-> top + low - MAX_NUM_WAVS_PER_CLASS]
        ELSE [whole |-> top, frac |-> top + low]

\* percentage_hash <= threshold
LessOrEqual(p, threshold) ==
    p.whole < threshold \/ (p.whole = threshold /\ p.frac = 0)

\* percentage_hash < threshold, for a whole-number threshold
Less(p, threshold) == p.whole < threshold

\* a misspelt label
LabelTypo(p, validation_percentage_, testing_percentage_) ==
    IF Less(p, validation_percentage_) THEN "validation"
    ELSE IF Less(p, testing_percentage_ + validation_percentage_) THEN "test"
    ELSE "training"

\* percentages reduced modulo 100
LabelWrap(p, validation_percentage_, testing_percentage_) ==
    IF Less(p, validation_percentage_ % 100) THEN "validation"
    ELSE IF Less(p, (testing_percentage_ + validation_percentage_) % 100)
         THEN "testing"
    ELSE "training"

\* the two thresholds taken in the wrong order
LabelSwapped(p, validation_percentage_, testing_percentage_) ==
    IF Less(p, testing_percentage_) THEN "validation"
    ELSE IF Less(p, testing_percentage_ + validation_percentage_) THEN "testing"
    ELSE "training"

\* lines 51-57
Label(p, validation_percentage_, testing_percentage_) ==
    IF Less(p, validation_percentage_) THEN "validation"
    ELSE IF Less(p, testing_percentage_ + validation_percentage_) THEN "testing"
    ELSE "training"

\* lines 35-50: the locals computed from the file name alone
Locals(b, h, d) ==
    [base_name |-> b, hash_name |-> h, hash_name_hashed |-> d,
     percentage_hash |-> PercentageHash(HashMod(d))]

Hashed(b, h) == Locals(b, h, Sha1(Bytes(h)))

HashStage(path) == Hashed(BaseName(path), HashName(BaseName(path)))

WhichSet(path, v, t) == Label(HashStage(path).percentage_hash, v, t)

(***************************************************************************)
(* Inputs                                                                  *)
(***************************************************************************)
MaxPieces == 3

MaxFiles == 1

\* a speaker id whose SHA-1 ends in 27 one bits
Speaker == <<"0", "9", "2", "5", "6", "e", "e", "d">>

Pieces == {<<"/">>, Marker, <<"\n">>, <<"0">>, <<"1">>, Speaker}

RECURSIVE Paths(_)
Paths(n) ==
    IF n = 0 THEN {<< >>}
    ELSE LET shorter == Paths(n - 1)
         IN  shorter \cup {p \o q : p \in shorter, q \in Pieces}

Percentages == {0, 10, 90, 100}

\* the files which_set is asked about, and the files that come and go
Corpus == {Speaker \o Marker \o <<"0">>,
           <<"/">> \o Speaker \o Marker \o <<"1">>}

Others == {<<"1">>, Speaker \o Marker \o <<"\n">>}

Nil == "none"

NoLocals ==
    /\ base_name = Nil
    /\ hash_name = Nil
    /\ hash_name_hashed = Nil
    /\ percentage_hash = Nil
    /\ result = Nil

\* one file name, about to be passed to which_set
Init ==
    /\ filename \in Paths(MaxPieces)
    /\ validation_percentage = Nil
    /\ testing_percentage = Nil
    /\ NoLocals
    /\ dataset = {}
    /\ first = Nil

\* lines 51-57 with the locals l of lines 35-50, for any two thresholds
Decide(l) ==
    \E v \in Percentages, t \in Percentages :
        /\ validation_percentage' = v
        /\ testing_percentage' = t
        /\ base_name' = l.base_name
        /\ hash_name' = l.hash_name
        /\ hash_name_hashed' = l.hash_name_hashed
        /\ percentage_hash' = l.percentage_hash
        /\ result' = Label(l.percentage_hash, v, t)

\* which_set(filename, v, t)
which_set ==
    /\ result = Nil
    /\ Decide(HashStage(filename))
    /\ UNCHANGED <<filename, dataset, first>>

Next == which_set

Spec == Init /\ [][Next]_vars

(***************************************************************************)
(* A data set that grows and shrinks between calls, thresholds fixed       *)
(***************************************************************************)
InitData ==
    /\ filename = Nil
    /\ validation_percentage \in Percentages
    /\ testing_percentage \in Percentages
    /\ validation_percentage + testing_percentage <= 100
    /\ NoLocals
    /\ dataset = {}
    /\ first = Nil

AddFile(f) ==
    /\ f \notin dataset
    /\ Cardinality(dataset) < MaxFiles
    /\ dataset' = dataset \cup {f}
    /\ UNCHANGED <<filename, validation_percentage, testing_percentage,
                   base_name, hash_name, hash_name_hashed, percentage_hash,
                   result, first>>

RemoveFile(f) ==
    /\ f \in dataset
    /\ dataset' = dataset \ {f}
    /\ UNCHANGED <<filename, validation_percentage, testing_percentage,
                   base_name, hash_name, hash_name_hashed, percentage_hash,
                   result, first>>

Return(f, l, r) ==
    /\ filename' = f
    /\ base_name' = l.base_name
    /\ hash_name' = l.hash_name
    /\ hash_name_hashed' = l.hash_name_hashed
    /\ percentage_hash' = l.percentage_hash
    /\ result' = r
    /\ first' = IF result = Nil
                THEN [filename |-> f, hash_name |-> l.hash_name,
                      result |-> r, dataset |-> dataset]
                ELSE first

DecideFixed(f, l) ==
    Return(f, l, Label(l.percentage_hash, validation_percentage,
                       testing_percentage))

\* which_set(f, validation_percentage, testing_percentage)
Call(f) ==
    /\ DecideFixed(f, HashStage(f))
    /\ UNCHANGED <<validation_percentage, testing_percentage, dataset>>

NextData ==
    \/ \E f \in Others : AddFile(f)
    \/ \E f \in Others : RemoveFile(f)
    \/ \E f \in Corpus : Call(f)

SpecData == InitData /\ [][NextData]_vars

(***************************************************************************)
(* Properties                                                              *)
(***************************************************************************)
Called == result # Nil

Labels == {"training", "validation", "testing"}

\* the position of the first '_nohash_' in s, 0 when there is none
FirstMarker(s) ==
    LET at == {i \in 1..Len(s) : MarkerAt(s, i)}
    IN  IF at = {} THEN 0 ELSE CHOOSE i \in at : \A j \in at : i <= j

\* the base name cut immediately before its first '_nohash_'
GroupingKey(path) ==
    LET b == BaseName(path)
    IN  IF FirstMarker(b) = 0 THEN b ELSE SubSeq(b, 1, FirstMarker(b) - 1)

\* base names that have a marker and differ only after the first one
SameGroup(f, g) ==
    /\ FirstMarker(BaseName(f)) > 0
    /\ FirstMarker(BaseName(g)) = FirstMarker(BaseName(f))
    /\ GroupingKey(g) = GroupingKey(f)

\* C1: two paths whose base names agree up to and including the first
\* '_nohash_' get the same label, whatever the thresholds.
GroupingInvariance ==
    Called =>
        \A g \in Paths(MaxPieces) :
            SameGroup(filename, g) =>
                WhichSet(g, validation_percentage, testing_percentage) = result

BoundaryAt100 ==
    (Called /\ validation_percentage = 100) => result = "validation"

\* C4: with the two thresholds summing to 100 no file is labelled 'training'.
NoTrainingAt100 ==
    (Called /\ validation_percentage + testing_percentage = 100)
        => result # "training"

\* C5: percentage_hash lies in [0, 100).
PercentageRange ==
    Called => /\ percentage_hash.whole >= 0
              /\ percentage_hash.frac >= 0
              /\ percentage_hash.whole < 100

\* C6: which_set returns one of 'training', 'validation', 'testing'.
Exhaustive == Called => result \in Labels

ExhaustiveWitness ==
    /\ Called
    /\ result = "testing"
    /\ FirstMarker(base_name) > 0

\* C7: a file labelled 'validation' at validation_percentage = v is labelled
\* 'validation' at every larger validation_percentage, testing_percentage
\* unchanged.
Monotone ==
    (Called /\ result = "validation") =>
        \A v2 \in Percentages :
            v2 >= validation_percentage =>
                Label(percentage_hash, v2, testing_percentage) = "validation"

MonotoneWitness ==
    /\ Called
    /\ result = "validation"
    /\ validation_percentage = 10
    /\ testing_percentage = 90

\* C8: validation_percentage = 0 never gives 'validation', testing_percentage
\* = 0 never gives 'testing', and both 0 always give 'training'.
ZeroThresholds ==
    Called =>
        /\ validation_percentage = 0 => result # "validation"
        /\ testing_percentage = 0 => result # "testing"
        /\ (validation_percentage = 0 /\ testing_percentage = 0)
               => result = "training"

ZeroThresholdsWitness ==
    /\ Called
    /\ validation_percentage = 0
    /\ testing_percentage = 0
    /\ result = "training"
    /\ percentage_hash.whole < 10

\* percentage_hash equals the whole number n
Exactly(p, n) == p.whole = n /\ p.frac = 0

\* C9: 'validation' if p < v, otherwise 'testing' if p < v + t, otherwise
\* 'training'; both comparisons are strict.
DecisionRule ==
    Called =>
        LET v == validation_percentage
            t == testing_percentage
            p == percentage_hash
        IN  /\ p.whole < v => result = "validation"
            /\ (p.whole >= v /\ p.whole < v + t) => result = "testing"
            /\ p.whole >= v + t => result = "training"
            /\ Exactly(p, v) => result # "validation"
            /\ Exactly(p, v + t) => result # "testing"

DecisionRuleWitness ==
    /\ Called
    /\ Exactly(percentage_hash, validation_percentage)
    /\ testing_percentage > 0
    /\ result = "testing"

\* C10: the name which_set hashes is the base name cut immediately before
\* its first '_nohash_' (the whole base name when it has none), for any
\* characters in the base name.
KeyDerivation == Called => hash_name = GroupingKey(filename)
====
